---- MODULE Spec2Model ----
(***************************************************************************)
(* Model of llvm_mode/afl-llvm-pass.so.cc.                                 *)
(*                                                                         *)
(* AFLCoverage::runOnModule puts, at the head of every sampled basic       *)
(* block, the instruction sequence                                         *)
(*     load __afl_prev_loc ; load __afl_area_ptr ; gep (prev ^ cur_loc) ;  *)
(*     load counter ; add 1 ; store counter ; store cur_loc >> 1           *)
(* The model runs the pass over the blocks of a module and then lets the   *)
(* threads of the compiled target execute the emitted instructions one     *)
(* memory access at a time.                                                *)
(***************************************************************************)
EXTENDS Naturals, Sequences, FiniteSets

\* log2 of the size of the coverage map (scaled down), executions of blocks
\* per process run.
MAP_SIZE_POW2 == 2
MaxExec == 3

\* i8 counters: IntegerType::getInt8Ty
ByteMod == 256

RECURSIVE Pow2(_)
Pow2(n) == IF n = 0 THEN 1 ELSE 2 * Pow2(n - 1)

MAP_SIZE == Pow2(MAP_SIZE_POW2)
Slots == 0 .. (MAP_SIZE - 1)

\* The basic blocks of the module and the threads of the target.
Blocks == {"A", "B"}
BlockOrder == <<"A", "B">>
Threads == {"t1", "t2"}

NoBlock == "none"
NULL == "NULL"
SHM == "SHM"

VARIABLES
    \* ---- AFLCoverage::runOnModule (compile time)
    inst_ratio_str, \* char* inst_ratio_str: the text of AFL_INST_RATIO
    pass_pc,        \* "getenv": before the ratio is decided, "blocks": in
                    \* the block loop, "fatal": FATAL has ended the process
    draw,           \* history: the value AFL_R(100) gave for the last block
    inst_ratio,     \* unsigned int inst_ratio
    bbIdx,          \* position of the for (auto &BB : F) loop in BlockOrder
    cur_loc,        \* the baked-in label of each instrumented block
    inst_blocks,    \* int inst_blocks
    \* ---- the target process (run time)
    started,        \* the target process has been started
    live,           \* the threads of the target
    AFLMapPtr,      \* __afl_area_ptr: NULL or the shared map
    map,            \* the bytes of the shared map
    AFLPrevLoc,     \* __afl_prev_loc, one cell per thread (TLS)
    pc,             \* per thread: next emitted instruction
    blk,            \* per thread: the block being executed
    PrevLoc,        \* per thread: SSA value PrevLocCasted
    MapPtrIdx,      \* per thread: SSA value MapPtrIdx (offset from MapPtr)
    Counter,        \* per thread: SSA value Counter
    execs,          \* block executions so far
    trace,          \* per thread: the (block, edge id) pairs it recorded
    fault,          \* the process was killed by a memory fault
    wild,           \* a load or store went through a null-based pointer
    map0,           \* history: the map as handed over at process start
    stores,         \* history: per slot, the counter stores completed
    seenNonZero,    \* history: the slots that have held a non-zero value
    exec_no,        \* 1: first run of the target, 2: its second run
    path,           \* history: the blocks control has reached in this run
    path1,          \* history: the blocks of the first run
    touched1,       \* history: the slots the first run stored to
    \* ---- ExecutionIndexing::runOnModule (compile time)
    FRead,          \* Function* FRead: M.getFunction("fread"), or NULL
    WrappedFRead,   \* Function* WrappedFRead, or NULL
    code,           \* per function: the instructions of its basic block
    fIdx,           \* position of the for (auto &F : M) loop in FuncOrder
    it,             \* the iterator `it`, as an index into the block
    nextVal,        \* identity of the next instruction the IRBuilder creates
    orig,           \* history: the module as it was before the pass
    siteOf,         \* history: per bracketed call, the frame its push passes
    \* ---- the indexed target process (run time)
    eiStarted,      \* the instrumented target has been started
    eiLive,         \* its threads
    ctl,            \* per thread: the control stack of (function, ip)
    ei_stack,       \* per thread: the call-context stack
    input,          \* the bytes of the input file
    fpos,           \* read position of the input stream
    log,            \* the (bytes, context stack) pairs the read wrapper saw
    run,            \* 1: first execution, 2: re-execution of the same input
    log1,           \* the log of the first execution
    abandoned       \* history: per thread, the frames of the wrapped calls
                    \* control has left without returning from them

covVars == <<inst_ratio_str, pass_pc, draw, inst_ratio, bbIdx, cur_loc,
             inst_blocks>>
runVars == <<started, live, AFLMapPtr, map, AFLPrevLoc, pc, blk, PrevLoc,
             MapPtrIdx, Counter, execs, trace, fault, wild, map0, stores,
             seenNonZero, exec_no, path, path1, touched1>>
histVars == <<map0, stores, seenNonZero>>
rerunVars == <<exec_no, path, path1, touched1>>
passVars == <<FRead, WrappedFRead, code, fIdx, it, nextVal, orig, siteOf>>
execVars == <<eiStarted, eiLive, ctl, ei_stack, input, fpos, log, run, log1,
              abandoned>>
eiVars == <<passVars, execVars>>
vars == <<covVars, runVars, eiVars>>

(***************************************************************************)
(* Arithmetic of the emitted instructions.                                 *)
(***************************************************************************)
RECURSIVE Xor(_, _)
Xor(a, b) ==
    IF a = 0 /\ b = 0 THEN 0
    ELSE (((a % 2) + (b % 2)) % 2) + (2 * Xor(a \div 2, b \div 2))

\* cur_loc >> 1 on an unsigned int
Shr1(x) == x \div 2

\* IRB.CreateXor(PrevLocCasted, CurLoc)
EdgeIdSum(prev, cur) == prev + cur
EdgeId(prev, cur) == Xor(prev, cur)

\* IRB.CreateAdd(Counter, ConstantInt::get(Int8Ty, 1)) on i8
IncrSaturating(c) == IF c = ByteMod - 1 THEN c ELSE c + 1
IncrNoAdd(c) == c
Incr(c) == (c + 1) % ByteMod

\* the value stored to __afl_prev_loc
NewPrevLocNoShift(c) == c
NewPrevLoc(c) == Shr1(c)

\* ConstantInt::get(Int32Ty, cur_loc): the label of block b is a constant
\* of the emitted code
CurLocOfProcess(b) == (cur_loc[b] + exec_no - 1) % MAP_SIZE
CurLoc(b) == cur_loc[b]

\* __afl_prev_loc is GeneralDynamicTLSModel: thread t resolves it to its own cell
PrevLocCellShared(t) == "t1"
PrevLocCell(t) == t

\* AFL_R(x): random() % x
AFL_R(x) == 0 .. (x - 1)

\* if (AFL_R(100) >= inst_ratio) continue;
DeclinedAbove(d, ratio) == d > ratio
Declined(d, ratio) == d >= ratio

\* sampling ratios given by AFL_INST_RATIO (100 when unset)
RatioInputs == {50, 100}

(***************************************************************************)
(* The text of AFL_INST_RATIO and sscanf(inst_ratio_str, "%u", &inst_ratio).*)
(* A text is a sequence of characters; getenv gives a null pointer when    *)
(* the variable is not set. An unsigned int is kept as two 16-bit halves.  *)
(***************************************************************************)
Unset == <<NULL>>
Digits == <<"0", "1", "2", "3", "4", "5", "6", "7", "8", "9">>
IsDigit(c) == \E i \in 1 .. 10 : Digits[i] = c
DigitVal(c) == (CHOOSE i \in 1 .. 10 : Digits[i] = c) - 1

RECURSIVE Dec(_)
Dec(n) ==
    IF n < 10 THEN <<Digits[n + 1]>>
    ELSE Append(Dec(n \div 10), Digits[(n % 10) + 1])

Half == Pow2(16)
UInt(hi, lo) == [hi |-> hi, lo |-> lo]
UIntMax == UInt(Half - 1, Half - 1)
\* 0 - v on 32 bits
Negated(v) ==
    IF v.lo = 0 THEN UInt((Half - v.hi) % Half, 0)
    ELSE UInt(Half - 1 - v.hi, Half - v.lo)

RECURSIVE SkipSpace(_)
SkipSpace(s) ==
    IF s # <<>> /\ Head(s) = " " THEN SkipSpace(Tail(s)) ELSE s

RECURSIVE DigitPrefix(_)
DigitPrefix(s) ==
    IF s # <<>> /\ IsDigit(Head(s))
    THEN <<Head(s)>> \o DigitPrefix(Tail(s))
    ELSE <<>>

\* the digits ds read onto v, modulo 2^32; ovf: the number passed 2^32 - 1
RECURSIVE Accumulate(_, _)
Accumulate(ds, v) ==
    IF ds = <<>> THEN v
    ELSE LET l == (v.lo * 10) + DigitVal(Head(ds))
             h == (v.hi * 10) + (l \div Half)
         IN  Accumulate(Tail(ds), [hi |-> h % Half, lo |-> l % Half,
                                   ovf |-> v.ovf \/ h >= Half])

\* %u: white space is skipped, a sign is taken, then the longest run of
\* decimal digits; what follows the digits is left unread. Without a digit
\* nothing is assigned (the call returns 0 or EOF). A number that does not
\* fit an unsigned int is undefined behaviour: the library stores its low
\* 32 bits or UINT_MAX.
ScanU(s) ==
    LET a == SkipSpace(s)
        signed == a # <<>> /\ Head(a) \in {"+", "-"}
        ds == DigitPrefix(IF signed THEN Tail(a) ELSE a)
        v == Accumulate(ds, [hi |-> 0, lo |-> 0, ovf |-> FALSE])
        m == UInt(v.hi, v.lo)
        r == IF signed /\ Head(a) = "-" THEN Negated(m) ELSE m
    IN  IF ds = <<>> THEN {[assigned |-> FALSE, v |-> UInt(0, 0)]}
        ELSE IF v.ovf THEN {[assigned |-> TRUE, v |-> r],
                            [assigned |-> TRUE, v |-> UIntMax]}
        ELSE {[assigned |-> TRUE, v |-> r]}

\* sscanf(...) != 1 || !inst_ratio || inst_ratio > 100
BadRatio(r) == ~r.assigned \/ (r.v.hi = 0 /\ r.v.lo = 0)
                  \/ r.v.hi > 0 \/ r.v.lo > 100

\* the texts AFL_INST_RATIO is given: numbers at and around the ends of
\* [1, 100] and inside it, and texts with a sign, white space, leading
\* zeros, a fraction, trailing letters, no digit at all, and a number
\* beyond 32 bits
RatioSamples == {0, 1, 2, 9, 10, 11, 50, 99, 100, 101}
OddTexts ==
    {<<"-", "1">>, <<"+", "7">>, <<" ", "7">>, <<"0", "0", "7">>,
     <<"5", ".", "5">>, <<"5", "0", "a", "b", "c">>, <<"a", "b", "c">>,
     <<"1", "e", "2">>, <<>>, <<" ">>, <<"-">>, <<"1", "0", "0", "0">>,
     <<"4", "2", "9", "4", "9", "6", "7", "2", "9", "7">>}
EnvTexts == {Unset} \cup {Dec(n) : n \in RatioSamples} \cup OddTexts

\* the map contents the harness may hand over (fresh, or counters about to wrap)
MapFills == {0, ByteMod - 1}

(***************************************************************************)
(* Initial state: the pass is about to visit the first block.              *)
(***************************************************************************)
\* no block visited yet, no target process yet
NothingVisited ==
    /\ draw = 0
    /\ bbIdx = 1
    /\ cur_loc = [b \in {} |-> 0]
    /\ inst_blocks = 0
    /\ started = FALSE
    /\ live = {}
    /\ AFLMapPtr = NULL
    /\ map = [s \in Slots |-> 0]
    /\ AFLPrevLoc = [t \in Threads |-> 0]
    /\ pc = [t \in Threads |-> "idle"]
    /\ blk = [t \in Threads |-> NoBlock]
    /\ PrevLoc = [t \in Threads |-> 0]
    /\ MapPtrIdx = [t \in Threads |-> 0]
    /\ Counter = [t \in Threads |-> 0]
    /\ execs = 0
    /\ trace = [t \in Threads |-> <<>>]
    /\ fault = FALSE
    /\ wild = FALSE
    /\ map0 = [s \in Slots |-> 0]
    /\ stores = [s \in Slots |-> 0]
    /\ seenNonZero = {}
    /\ exec_no = 1
    /\ path = <<>>
    /\ path1 = <<>>
    /\ touched1 = {}

CoverageInit ==
    /\ inst_ratio \in RatioInputs
    /\ inst_ratio_str = Dec(inst_ratio)
    /\ pass_pc = "blocks"
    /\ NothingVisited

(***************************************************************************)
(* One iteration of the block loop of AFLCoverage::runOnModule.            *)
(***************************************************************************)
VisitBlock == pass_pc = "blocks" /\ bbIdx <= Len(BlockOrder)

\* the draw d makes the loop `continue`
SkipAt(d) ==
    /\ VisitBlock
    /\ Declined(d, inst_ratio)
    /\ bbIdx' = bbIdx + 1
    /\ UNCHANGED <<eiVars, inst_ratio_str, pass_pc, inst_ratio, cur_loc,
                   inst_blocks, runVars>>

\* the draw d lets the loop body emit the edge update with a fresh label
InstrumentAt(d) ==
    /\ VisitBlock
    /\ ~Declined(d, inst_ratio)
    /\ \E loc \in AFL_R(MAP_SIZE) :
          cur_loc' = [b \in DOMAIN cur_loc \cup {BlockOrder[bbIdx]} |->
                         IF b = BlockOrder[bbIdx] THEN loc ELSE cur_loc[b]]
    /\ inst_blocks' = inst_blocks + 1
    /\ bbIdx' = bbIdx + 1
    /\ UNCHANGED <<eiVars, inst_ratio_str, pass_pc, inst_ratio, runVars>>

SkipBlock ==
    /\ VisitBlock
    /\ \E d \in AFL_R(100) : SkipAt(d) /\ UNCHANGED draw

InstrumentBlock ==
    /\ VisitBlock
    /\ \E d \in AFL_R(100) : InstrumentAt(d) /\ UNCHANGED draw

\* lines 92-102: the ratio is 100 unless AFL_INST_RATIO is set; a text that
\* does not scan, or scans as 0 or as more than 100, ends the process
GetInstRatio ==
    /\ pass_pc = "getenv"
    /\ IF inst_ratio_str = Unset
       THEN /\ pass_pc' = "blocks"
            /\ UNCHANGED inst_ratio
       ELSE \E r \in ScanU(inst_ratio_str) :
               IF BadRatio(r)
               THEN /\ pass_pc' = "fatal"
                    /\ UNCHANGED inst_ratio
               ELSE /\ pass_pc' = "blocks"
                    /\ inst_ratio' = r.v.lo
    /\ UNCHANGED <<eiVars, inst_ratio_str, draw, bbIdx, cur_loc, inst_blocks,
                   runVars>>

\* the block loop, the draw of each iteration kept
SampleSkip ==
    /\ VisitBlock
    /\ \E d \in AFL_R(100) : SkipAt(d) /\ draw' = d

SampleInstrument ==
    /\ VisitBlock
    /\ \E d \in AFL_R(100) : InstrumentAt(d) /\ draw' = d

PassDone == pass_pc = "blocks" /\ bbIdx > Len(BlockOrder)

(***************************************************************************)
(* The target starts: the harness has or has not attached a map, and the   *)
(* program runs one or more threads, each with a zeroed __afl_prev_loc.    *)
(***************************************************************************)
StartTarget ==
    /\ PassDone
    /\ ~started
    /\ started' = TRUE
    /\ \E ts \in (SUBSET Threads) \ {{}} : live' = ts
    /\ \E p \in {NULL, SHM} : AFLMapPtr' = p
    /\ \E f \in MapFills : map' = [s \in Slots |-> f]
    /\ map0' = map'
    /\ seenNonZero' = {s \in Slots : map'[s] # 0}
    /\ UNCHANGED <<eiVars, covVars, rerunVars,
                   AFLPrevLoc, pc, blk, PrevLoc, MapPtrIdx, Counter,
                   execs, trace, fault, wild, stores>>

Running(t) == started /\ ~fault /\ t \in live

\* Control reaches block b on thread t.
EnterAt(t, b) ==
    /\ Running(t)
    /\ pc[t] \in {"idle", "term"}
    /\ execs < MaxExec
    /\ execs' = execs + 1
    /\ blk' = [blk EXCEPT ![t] = b]
    /\ pc' = [pc EXCEPT ![t] =
                 IF b \in DOMAIN cur_loc THEN "load_prev" ELSE "term"]
    /\ UNCHANGED <<eiVars, covVars, started, live, AFLMapPtr, map, AFLPrevLoc,
                   PrevLoc, MapPtrIdx, Counter, trace, fault, wild, histVars>>

EnterBlock(t, b) == EnterAt(t, b) /\ UNCHANGED rerunVars

\* LoadInst *PrevLoc = IRB.CreateLoad(AFLPrevLoc); zext
LoadPrevLoc(t) ==
    /\ Running(t)
    /\ pc[t] = "load_prev"
    /\ PrevLoc' = [PrevLoc EXCEPT ![t] = AFLPrevLoc[PrevLocCell(t)]]
    /\ pc' = [pc EXCEPT ![t] = "load_ptr"]
    /\ UNCHANGED <<eiVars, covVars, rerunVars,
                   started, live, AFLMapPtr, map, AFLPrevLoc, blk,
                   MapPtrIdx, Counter, execs, trace, fault, wild, histVars>>

\* LoadInst *MapPtr = IRB.CreateLoad(AFLMapPtr); GEP(MapPtr, prev ^ cur)
LoadMapPtr(t) ==
    /\ Running(t)
    /\ pc[t] = "load_ptr"
    /\ LET idx == EdgeId(PrevLoc[t], CurLoc(blk[t])) IN
          /\ MapPtrIdx' = [MapPtrIdx EXCEPT ![t] = idx]
          /\ trace' = [trace EXCEPT ![t] =
                          Append(@, [blk |-> blk[t], idx |-> idx])]
    /\ pc' = [pc EXCEPT ![t] = "load_ctr"]
    /\ UNCHANGED <<eiVars, covVars, rerunVars,
                   started, live, AFLMapPtr, map, AFLPrevLoc, blk,
                   PrevLoc, Counter, execs, fault, wild, histVars>>

\* LoadInst *Counter = IRB.CreateLoad(MapPtrIdx)
LoadCounter(t) ==
    /\ Running(t)
    /\ pc[t] = "load_ctr"
    /\ IF AFLMapPtr = SHM
       THEN /\ Counter' = [Counter EXCEPT ![t] = map[MapPtrIdx[t]]]
            /\ pc' = [pc EXCEPT ![t] = "store_ctr"]
            /\ UNCHANGED <<fault, wild>>
       ELSE \* a load from address 0 + idx: it traps, or reads some byte
            \/ /\ fault' = TRUE
               /\ UNCHANGED <<Counter, pc, wild>>
            \/ /\ \E v \in MapFills : Counter' = [Counter EXCEPT ![t] = v]
               /\ wild' = TRUE
               /\ pc' = [pc EXCEPT ![t] = "store_ctr"]
               /\ UNCHANGED fault
    /\ UNCHANGED <<eiVars, covVars, rerunVars,
                   started, live, AFLMapPtr, map, AFLPrevLoc, blk,
                   PrevLoc, MapPtrIdx, execs, trace, histVars>>

\* IRB.CreateStore(Incr, MapPtrIdx)
StoreCounter(t) ==
    /\ Running(t)
    /\ pc[t] = "store_ctr"
    /\ IF AFLMapPtr = SHM
       THEN /\ map' = [map EXCEPT ![MapPtrIdx[t]] = Incr(Counter[t])]
            /\ pc' = [pc EXCEPT ![t] = "store_prev"]
            /\ stores' = [stores EXCEPT ![MapPtrIdx[t]] = @ + 1]
            /\ seenNonZero' = seenNonZero \cup
                                 {s \in {MapPtrIdx[t]} : map'[s] # 0}
            /\ UNCHANGED <<fault, wild>>
       ELSE \* a store to address 0 + idx: it traps, or hits some byte
            \/ /\ fault' = TRUE
               /\ UNCHANGED <<map, pc, wild, stores, seenNonZero>>
            \/ /\ wild' = TRUE
               /\ pc' = [pc EXCEPT ![t] = "store_prev"]
               /\ UNCHANGED <<map, fault, stores, seenNonZero>>
    /\ UNCHANGED <<eiVars, covVars, rerunVars,
                   started, live, AFLMapPtr, AFLPrevLoc, blk,
                   PrevLoc, MapPtrIdx, Counter, execs, trace, map0>>

\* IRB.CreateStore(ConstantInt::get(Int32Ty, cur_loc >> 1), AFLPrevLoc)
\* The SSA values of the block are dead afterwards.
StorePrevLoc(t) ==
    /\ Running(t)
    /\ pc[t] = "store_prev"
    /\ AFLPrevLoc' = [AFLPrevLoc EXCEPT ![PrevLocCell(t)] =
                         NewPrevLoc(CurLoc(blk[t]))]
    /\ pc' = [pc EXCEPT ![t] = "term"]
    /\ PrevLoc' = [PrevLoc EXCEPT ![t] = 0]
    /\ MapPtrIdx' = [MapPtrIdx EXCEPT ![t] = 0]
    /\ Counter' = [Counter EXCEPT ![t] = 0]
    /\ UNCHANGED <<eiVars, covVars, rerunVars,
                   started, live, AFLMapPtr, map, blk, execs, trace,
                   fault, wild, histVars>>


(***************************************************************************)
(* The same instrumented program run twice, each time as one thread on a   *)
(* zeroed map, the second run taking the blocks the first one took.        *)
(***************************************************************************)
Touched == {s \in Slots : stores[s] > 0}

StartSingle ==
    /\ StartTarget
    /\ live' = {"t1"}
    /\ AFLMapPtr' = SHM
    /\ map' = [s \in Slots |-> 0]

RunBlock ==
    \E b \in Blocks :
        /\ exec_no = 2 => (execs < Len(path1) /\ b = path1[execs + 1])
        /\ EnterAt("t1", b)
        /\ path' = Append(path, b)
        /\ UNCHANGED <<exec_no, path1, touched1>>

\* the first run ends between two blocks; a new process of the same binary
\* starts with a zeroed map and a zeroed __afl_prev_loc
RerunTarget ==
    /\ Running("t1")
    /\ exec_no = 1
    /\ pc["t1"] \in {"idle", "term"}
    /\ exec_no' = 2
    /\ path1' = path
    /\ touched1' = Touched
    /\ path' = <<>>
    /\ map' = [s \in Slots |-> 0]
    /\ AFLPrevLoc' = [t \in Threads |-> 0]
    /\ pc' = [t \in Threads |-> "idle"]
    /\ blk' = [t \in Threads |-> NoBlock]
    /\ execs' = 0
    /\ trace' = [t \in Threads |-> <<>>]
    /\ stores' = [s \in Slots |-> 0]
    /\ seenNonZero' = {}
    /\ UNCHANGED <<eiVars, covVars, started, live, AFLMapPtr, PrevLoc,
                   MapPtrIdx, Counter, fault, wild, map0>>

(***************************************************************************)
(* ExecutionIndexing::runOnModule.                                         *)
(*                                                                         *)
(* An instruction is a record: op is "call" (a CallInst) or "insn" (any    *)
(* other instruction), id is its identity as an SSA value, callee is the   *)
(* name of getCalledFunction() ("" when it is null: an indirect call),     *)
(* target is the function the call reaches at run time, args are its       *)
(* operands.                                                               *)
(***************************************************************************)
Const(n) == [k |-> "const", n |-> n, s |-> ""]
Val(id) == [k |-> "val", n |-> id, s |-> ""]
Str(name) == [k |-> "str", n |-> 0, s |-> name]
RuntimeRandom == [k |-> "rand", n |-> 0, s |-> ""]
NullCharPtr == [k |-> "null", n |-> 0, s |-> ""]

Insn(id, args) ==
    [op |-> "insn", id |-> id, callee |-> "", target |-> "", args |-> args]
CallInst(id, callee, target, args) ==
    [op |-> "call", id |-> id, callee |-> callee, target |-> target,
     args |-> args]
\* an invoke is a call with an unwind destination; it is no CallInst
InvokeInst(id, callee) ==
    [op |-> "invoke", id |-> id, callee |-> callee, target |-> callee,
     args |-> <<>>]

EIPushCallFunc == "__afl_ei_push_call"
EIPopReturnFunc == "__afl_ei_pop_return"
WrappedFReadName == "__afl_ei_fread"
ThreadCreate == "pthread_create"
Exit == "exit"
Throw == "__cxa_throw"

\* The functions the module defines, in module order; each is one block.
FuncOrder == <<"main", "foo">>
DefinedFuncs == {"main", "foo"}

\* fread(ptr, size, nmemb, stream)
FReadArgs(buf, nmemb) == <<Const(buf), Const(1), Const(nmemb), Const(0)>>

\* The instruction of kind k at position i of a block whose identities
\* start after base. A non-call instruction uses the value before it.
MakeInsn(k, base, i) ==
    CASE k = "insn" ->
            Insn(base + i, IF i = 1 THEN <<>> ELSE <<Val(base + i - 1)>>)
      [] k = "foo" -> CallInst(base + i, "foo", "foo", <<>>)
      [] k = "fread" ->
            CallInst(base + i, "fread", "fread", FReadArgs(base + i, 3 - i))
      [] k = "ifread" ->
            CallInst(base + i, "", "fread", FReadArgs(base + i, 3 - i))
      [] k = "spawn" ->
            CallInst(base + i, ThreadCreate, ThreadCreate, <<Str("foo")>>)
      [] k = "exit" -> CallInst(base + i, Exit, Exit, <<Const(0)>>)
      [] k = "throw" -> CallInst(base + i, Throw, Throw, <<>>)
      [] k = "try_foo" -> InvokeInst(base + i, "foo")

MakeBlock(kinds, base) ==
    [i \in 1 .. Len(kinds) |-> MakeInsn(kinds[i], base, i)]

\* main: one or two instructions of any kind (a plain instruction, a call
\* of foo, a call of fread, a call of fread through a pointer, the start of
\* a thread that runs foo); foo: a read and a use of it, or no call at all.
MainKinds == {"insn", "foo", "fread", "ifread", "spawn"}
MainBodies == UNION {[1 .. n -> MainKinds] : n \in 1 .. 2}
FooBodies == {<<"fread", "insn">>, <<"insn">>}
\* modules with calls that do not return: main calls or invokes foo, or
\* exits; foo throws, exits or returns. The instruction after an invoke is
\* its normal and its unwind destination.
ExitKinds == {"insn", "foo", "try_foo", "exit"}
ExitMainBodies == UNION {[1 .. n -> ExitKinds] : n \in 1 .. 2}
ExitFooBodies == {<<"throw">>, <<"exit">>, <<"insn">>, <<"insn", "throw">>}
ExitModules ==
    {[f \in DefinedFuncs |->
         IF f = "main" THEN MakeBlock(m, 0) ELSE MakeBlock(g, 10)] :
       m \in ExitMainBodies, g \in ExitFooBodies}

Modules ==
    {[f \in DefinedFuncs |->
         IF f = "main" THEN MakeBlock(m, 0) ELSE MakeBlock(g, 10)] :
       m \in MainBodies, g \in FooBodies}

\* M.getFunction("fread"): the module names fread iff it calls it or takes
\* its address.
GetFunctionFRead(mod) ==
    IF \E f \in DefinedFuncs : \E i \in 1 .. Len(mod[f]) :
          mod[f][i].callee = "fread" \/ mod[f][i].target = "fread"
    THEN "fread" ELSE NULL

InsertAt(seq, i, x) ==
    SubSeq(seq, 1, i - 1) \o <<x>> \o SubSeq(seq, i, Len(seq))
RemoveAt(seq, i) ==
    SubSeq(seq, 1, i - 1) \o SubSeq(seq, i + 1, Len(seq))

\* Call->replaceAllUsesWith(WrappedCall)
KeepUses(bb, old, new) == bb
ReplaceAllUsesWith(bb, old, new) ==
    [i \in 1 .. Len(bb) |->
        [bb[i] EXCEPT !.args =
            [a \in 1 .. Len(bb[i].args) |->
                IF bb[i].args[a] = Val(old) THEN Val(new)
                ELSE bb[i].args[a]]]]

\* ConstantInt::get(Int32Ty, call_site_id): the id is baked in as a constant
CallSiteIdAtRunTime(call_site_id) == RuntimeRandom
CallSiteId(call_site_id) == Const(call_site_id)

\* (CalledFunc && CalledFunc->hasName()) ? name : NullCharPtr
CalledFuncName(Call) ==
    IF Call.callee # "" THEN Str(Call.callee) ELSE NullCharPtr

\* FRead != NULL && FRead == Call->getCalledFunction()
IsFReadCall(Call, fr) == fr # NULL /\ fr = Call.callee

\* The body of `if (auto Call = dyn_cast<CallInst>(&Insn))` for the call at
\* index i of bb, with nv the identity of the next created instruction:
\* the rewritten block and the new position of the iterator.
\* A variant that forgets the pop on the fread path:
BracketCallNoPopOnFRead(bb, i, call_site_id, nv, fr, wr) ==
    LET Call == bb[i]
        push == CallInst(nv, EIPushCallFunc, EIPushCallFunc,
                         <<CallSiteId(call_site_id), CalledFuncName(Call)>>)
        bb1 == InsertAt(bb, i, push)
        WrappedCall == CallInst(nv + 1, wr, wr, Call.args)
        pop == CallInst(nv + 2, EIPopReturnFunc, EIPopReturnFunc, <<>>)
    IN  IF IsFReadCall(Call, fr)
        THEN [bb |-> RemoveAt(ReplaceAllUsesWith(
                         InsertAt(bb1, i + 1, WrappedCall),
                         Call.id, WrappedCall.id), i + 2),
              it |-> i + 2]
        ELSE [bb |-> InsertAt(bb1, i + 2, pop), it |-> i + 3]

\* A variant that puts the pop before the call:
BracketCallPopFirst(bb, i, call_site_id, nv, fr, wr) ==
    LET Call == bb[i]
        push == CallInst(nv, EIPushCallFunc, EIPushCallFunc,
                         <<CallSiteId(call_site_id), CalledFuncName(Call)>>)
        pop == CallInst(nv + 2, EIPopReturnFunc, EIPopReturnFunc, <<>>)
    IN  [bb |-> InsertAt(InsertAt(bb, i, push), i + 1, pop), it |-> i + 3]

BracketCall(bb, i, call_site_id, nv, fr, wr) ==
    LET Call == bb[i]
        \* IRB.SetInsertPoint(&BB, it); IRB.CreateCall(EIPushCallFunc, ...)
        push == CallInst(nv, EIPushCallFunc, EIPushCallFunc,
                         <<CallSiteId(call_site_id), CalledFuncName(Call)>>)
        bb1 == InsertAt(bb, i, push)          \* Call is now at i + 1
        WrappedCall == CallInst(nv + 1, wr, wr, Call.args)
        \* create the wrapped call before Call, replace the uses, erase Call:
        \* `it` is the instruction after the erased one
        bb2 == IF IsFReadCall(Call, fr)
               THEN RemoveAt(ReplaceAllUsesWith(
                                InsertAt(bb1, i + 1, WrappedCall),
                                Call.id, WrappedCall.id), i + 2)
               ELSE bb1                       \* it++
        it2 == i + 2
        \* IRB.SetInsertPoint(&BB, it); IRB.CreateCall(EIPopReturnFunc)
        pop == CallInst(nv + 2, EIPopReturnFunc, EIPopReturnFunc, <<>>)
    IN  [bb |-> InsertAt(bb2, it2, pop), it |-> it2 + 1]

\* The frame the push of the call at index i passes, and the identity of the
\* call it brackets once the block is rewritten.
BracketedId(Call, nv, fr) == IF IsFReadCall(Call, fr) THEN nv + 1 ELSE Call.id

EIPassDone == fIdx > Len(FuncOrder)
CurFn == FuncOrder[fIdx]

\* while (it != BB.end()), Insn is a CallInst
VisitCall ==
    /\ ~EIPassDone
    /\ it <= Len(code[CurFn])
    /\ code[CurFn][it].op = "call"
    /\ \E call_site_id \in AFL_R(MAP_SIZE) :
          LET Call == code[CurFn][it]
              r == BracketCall(code[CurFn], it, call_site_id, nextVal,
                               FRead, WrappedFRead)
              key == BracketedId(Call, nextVal, FRead)
          IN  /\ code' = [code EXCEPT ![CurFn] = r.bb]
              /\ it' = r.it
              /\ siteOf' = [c \in DOMAIN siteOf \cup {key} |->
                               IF c = key
                               THEN [site |-> call_site_id,
                                     name |-> Call.callee]
                               ELSE siteOf[c]]
    /\ nextVal' = nextVal + 3
    /\ UNCHANGED <<covVars, runVars, FRead, WrappedFRead, fIdx, orig,
                   execVars>>

\* while (it != BB.end()), Insn is not a CallInst: it++
VisitOther ==
    /\ ~EIPassDone
    /\ it <= Len(code[CurFn])
    /\ code[CurFn][it].op # "call"
    /\ it' = it + 1
    /\ UNCHANGED <<covVars, runVars, FRead, WrappedFRead, code, fIdx, nextVal,
                   orig, siteOf, execVars>>

\* it == BB.end(): the next block
NextBB ==
    /\ ~EIPassDone
    /\ it > Len(code[CurFn])
    /\ fIdx' = fIdx + 1
    /\ it' = 1
    /\ UNCHANGED <<covVars, runVars, FRead, WrappedFRead, code, nextVal, orig,
                   siteOf, execVars>>

(***************************************************************************)
(* The indexed target at run time: __afl_ei_push_call, __afl_ei_pop_return *)
(* and __afl_ei_fread as the specification describes them, on a target     *)
(* whose thread t1 runs main and whose thread t2, once created, runs foo.  *)
(***************************************************************************)
Inputs == {<<1>>, <<1, 0, 1>>}

FreshProcess ==
    /\ eiLive' = {"t1"}
    /\ ctl' = [t \in Threads |->
                  IF t = "t1" THEN <<[fn |-> "main", ip |-> 1]>> ELSE <<>>]
    /\ ei_stack' = [t \in Threads |-> <<>>]
    /\ fpos' = 0
    /\ log' = <<>>
    /\ abandoned' = [t \in Threads |-> <<>>]

StartIndexed ==
    /\ EIPassDone
    /\ ~eiStarted
    /\ eiStarted' = TRUE
    /\ FreshProcess
    /\ \E inp \in Inputs : input' = inp
    /\ UNCHANGED <<covVars, runVars, passVars, run, log1>>

Top(t) == ctl[t][Len(ctl[t])]
AtInsn(t) ==
    /\ eiStarted
    /\ t \in eiLive
    /\ ctl[t] # <<>>
    /\ Top(t).ip <= Len(code[Top(t).fn])
CurInsn(t) == code[Top(t).fn][Top(t).ip]
Advance(t) ==
    ctl' = [ctl EXCEPT ![t][Len(ctl[t])].ip = @ + 1]

\* the values an operand can have when the instruction executes
EvalOperand(o) == IF o.k = "rand" THEN AFL_R(MAP_SIZE) ELSE {o.n}

\* __afl_ei_push_call(call_site_id, callee_name)
ExecPush(t) ==
    /\ AtInsn(t)
    /\ CurInsn(t).op = "call"
    /\ CurInsn(t).target = EIPushCallFunc
    /\ \E v \in EvalOperand(CurInsn(t).args[1]) :
          ei_stack' = [ei_stack EXCEPT ![t] =
              Append(@, [site |-> v, name |-> CurInsn(t).args[2].s])]
    /\ Advance(t)
    /\ UNCHANGED <<covVars, runVars, passVars, eiStarted, eiLive, input, fpos,
                   log, run, log1, abandoned>>

\* __afl_ei_pop_return()
ExecPop(t) ==
    /\ AtInsn(t)
    /\ CurInsn(t).op = "call"
    /\ CurInsn(t).target = EIPopReturnFunc
    /\ ei_stack[t] # <<>>
    /\ ei_stack' = [ei_stack EXCEPT ![t] = SubSeq(@, 1, Len(@) - 1)]
    /\ Advance(t)
    /\ UNCHANGED <<covVars, runVars, passVars, eiStarted, eiLive, input, fpos,
                   log, run, log1, abandoned>>

\* bytes a read of size * nmemb gets at the current position
Got(args) ==
    LET want == args[2].n * args[3].n
        left == Len(input) - fpos
    IN  IF want <= left THEN want ELSE left

\* __afl_ei_fread(ptr, size, nmemb, stream): fread, observed
ExecWrappedFRead(t) ==
    /\ AtInsn(t)
    /\ CurInsn(t).op = "call"
    /\ CurInsn(t).target = WrappedFReadName
    /\ LET n == Got(CurInsn(t).args) IN
          /\ log' = Append(log, [bytes |-> SubSeq(input, fpos + 1, fpos + n),
                                 stack |-> ei_stack[t]])
          /\ fpos' = fpos + n
    /\ Advance(t)
    /\ UNCHANGED <<covVars, runVars, passVars, eiStarted, eiLive, ei_stack,
                   input, run, log1, abandoned>>

\* fread itself, reached by a call the pass left alone
ExecFRead(t) ==
    /\ AtInsn(t)
    /\ CurInsn(t).op = "call"
    /\ CurInsn(t).target = "fread"
    /\ fpos' = fpos + Got(CurInsn(t).args)
    /\ Advance(t)
    /\ UNCHANGED <<covVars, runVars, passVars, eiStarted, eiLive, ei_stack,
                   input, log, run, log1, abandoned>>

\* pthread_create(..., start_routine, ...): a new thread runs the routine
\* on a context stack of its own; no thread is left to create: an error
ExecSpawn(t) ==
    /\ AtInsn(t)
    /\ CurInsn(t).op = "call"
    /\ CurInsn(t).target = ThreadCreate
    /\ LET free == Threads \ eiLive IN
          IF free = {}
          THEN /\ Advance(t)
               /\ UNCHANGED eiLive
          ELSE LET u == CHOOSE x \in free : TRUE IN
               /\ eiLive' = eiLive \cup {u}
               /\ ctl' = [ctl EXCEPT
                             ![t][Len(ctl[t])].ip = @ + 1,
                             ![u] = <<[fn |-> CurInsn(t).args[1].s,
                                       ip |-> 1]>>]
    /\ UNCHANGED <<covVars, runVars, passVars, eiStarted, ei_stack, input,
                   fpos, log, run, log1, abandoned>>

\* a call of a function the module defines
ExecCall(t) ==
    /\ AtInsn(t)
    /\ CurInsn(t).op = "call"
    /\ CurInsn(t).target \in DefinedFuncs
    /\ ctl' = [ctl EXCEPT ![t] = Append(@, [fn |-> CurInsn(t).target, ip |-> 1])]
    /\ UNCHANGED <<covVars, runVars, passVars, eiStarted, eiLive, ei_stack,
                   input, fpos, log, run, log1, abandoned>>

ExecOther(t) ==
    /\ AtInsn(t)
    /\ CurInsn(t).op = "insn"
    /\ Advance(t)
    /\ UNCHANGED <<covVars, runVars, passVars, eiStarted, eiLive, ei_stack,
                   input, fpos, log, run, log1, abandoned>>

\* the end of a function: return to the instruction after the call
ExecRet(t) ==
    /\ eiStarted
    /\ t \in eiLive
    /\ ctl[t] # <<>>
    /\ Top(t).ip > Len(code[Top(t).fn])
    /\ ctl' = [ctl EXCEPT ![t] =
                  IF Len(@) = 1 THEN <<>>
                  ELSE [SubSeq(@, 1, Len(@) - 1)
                           EXCEPT ![Len(@) - 1].ip = @ + 1]]
    /\ UNCHANGED <<covVars, runVars, passVars, eiStarted, eiLive, ei_stack,
                   input, fpos, log, run, log1, abandoned>>

IsBracket(i) ==
    i.op = "call" /\ i.callee \in {EIPushCallFunc, EIPopReturnFunc}

SiteFrame(id) ==
    IF id \in DOMAIN siteOf THEN siteOf[id]
    ELSE [site |-> MAP_SIZE, name |-> "?"]

\* The wrapped call a control frame is inside of, as a sequence of zero or
\* one context frames: a wrapped call is active from its push to its pop,
\* that is while control is at the call, inside it, or at its pop.
FrameAt(fr) ==
    LET body == code[fr.fn] IN
    IF fr.ip > Len(body) THEN <<>>
    ELSE IF body[fr.ip].op = "call" /\ ~IsBracket(body[fr.ip])
         THEN <<SiteFrame(body[fr.ip].id)>>
    ELSE IF body[fr.ip].callee = EIPopReturnFunc /\ fr.ip > 1
         THEN <<SiteFrame(body[fr.ip - 1].id)>>
    ELSE <<>>

RECURSIVE FramesOf(_)
FramesOf(cs) ==
    IF cs = <<>> THEN <<>>
    ELSE FrameAt(Head(cs)) \o FramesOf(Tail(cs))

ActiveFrames(t) == FramesOf(ctl[t])

\* a call of a defined function through an invoke
ExecInvoke(t) ==
    /\ AtInsn(t)
    /\ CurInsn(t).op = "invoke"
    /\ ctl' = [ctl EXCEPT ![t] = Append(@, [fn |-> CurInsn(t).target, ip |-> 1])]
    /\ UNCHANGED <<covVars, runVars, passVars, eiStarted, eiLive, ei_stack,
                   input, fpos, log, run, log1, abandoned>>

\* exit(status): the process ends inside the call
ExecExit(t) ==
    /\ AtInsn(t)
    /\ CurInsn(t).op = "call"
    /\ CurInsn(t).target = Exit
    /\ eiLive' = {}
    /\ UNCHANGED <<covVars, runVars, passVars, eiStarted, ctl, ei_stack,
                   input, fpos, log, run, log1, abandoned>>

\* the frames of thread t, below the running one, that stand at an invoke
Handlers(t) ==
    {j \in 1 .. (Len(ctl[t]) - 1) :
        code[ctl[t][j].fn][ctl[t][j].ip].op = "invoke"}

\* __cxa_throw: control unwinds to the unwind destination of the innermost
\* invoke on the thread, past every call in between; with no invoke on
\* the thread the process ends inside the call
ExecThrow(t) ==
    /\ AtInsn(t)
    /\ CurInsn(t).op = "call"
    /\ CurInsn(t).target = Throw
    /\ IF Handlers(t) = {}
       THEN /\ eiLive' = {}
            /\ UNCHANGED <<ctl, abandoned>>
       ELSE LET j == CHOOSE h \in Handlers(t) :
                        \A k \in Handlers(t) : k <= h
            IN  /\ ctl' = [ctl EXCEPT ![t] =
                              [SubSeq(@, 1, j) EXCEPT ![j].ip = @ + 1]]
                /\ abandoned' = [abandoned EXCEPT ![t] =
                      @ \o FramesOf(SubSeq(ctl[t], j + 1, Len(ctl[t])))]
                /\ UNCHANGED eiLive
    /\ UNCHANGED <<covVars, runVars, passVars, eiStarted, ei_stack, input,
                   fpos, log, run, log1>>

Finished == eiStarted /\ \A t \in Threads : ctl[t] = <<>>

\* the same binary is executed again on the same input
Rerun ==
    /\ Finished
    /\ run = 1
    /\ run' = 2
    /\ log1' = log
    /\ FreshProcess
    /\ UNCHANGED <<covVars, runVars, passVars, eiStarted, input>>

(***************************************************************************)
(* The two specifications: the coverage pass and its target; the indexing  *)
(* pass and its target.                                                    *)
(***************************************************************************)
CoverageIdle ==
    /\ inst_ratio = 100
    /\ inst_ratio_str = Unset
    /\ pass_pc = "blocks"
    /\ NothingVisited

IndexingAt(mod) ==
    /\ FRead = GetFunctionFRead(mod)
    /\ WrappedFRead = IF FRead = NULL THEN NULL ELSE WrappedFReadName
    /\ code = mod
    /\ orig = mod
    /\ fIdx = 1
    /\ it = 1
    /\ nextVal = 21
    /\ siteOf = [c \in {} |-> [site |-> 0, name |-> ""]]
    /\ eiStarted = FALSE
    /\ eiLive = {}
    /\ ctl = [t \in Threads |-> <<>>]
    /\ ei_stack = [t \in Threads |-> <<>>]
    /\ input = <<>>
    /\ fpos = 0
    /\ log = <<>>
    /\ run = 1
    /\ log1 = <<>>
    /\ abandoned = [t \in Threads |-> <<>>]

EmptyModule == [f \in DefinedFuncs |-> <<>>]

Init == CoverageInit /\ IndexingAt(EmptyModule)

Next ==
    \/ SkipBlock
    \/ InstrumentBlock
    \/ StartTarget
    \/ \E t \in Threads, b \in Blocks : EnterBlock(t, b)
    \/ \E t \in Threads : LoadPrevLoc(t)
    \/ \E t \in Threads : LoadMapPtr(t)
    \/ \E t \in Threads : LoadCounter(t)
    \/ \E t \in Threads : StoreCounter(t)
    \/ \E t \in Threads : StorePrevLoc(t)

Spec == Init /\ [][Next]_vars

InitEI == CoverageIdle /\ \E mod \in Modules : IndexingAt(mod)

NextEI ==
    \/ VisitCall
    \/ VisitOther
    \/ NextBB
    \/ StartIndexed
    \/ \E t \in Threads : ExecPush(t)
    \/ \E t \in Threads : ExecPop(t)
    \/ \E t \in Threads : ExecWrappedFRead(t)
    \/ \E t \in Threads : ExecFRead(t)
    \/ \E t \in Threads : ExecSpawn(t)
    \/ \E t \in Threads : ExecCall(t)
    \/ \E t \in Threads : ExecOther(t)
    \/ \E t \in Threads : ExecRet(t)
    \/ Rerun

SpecEI == InitEI /\ [][NextEI]_vars

\* the indexing pass alone; it is a sequential loop, so it keeps stepping
NextEIPass ==
    \/ VisitCall
    \/ VisitOther
    \/ NextBB

SpecEIPass == InitEI /\ [][NextEIPass]_vars /\ WF_vars(NextEIPass)

\* the indexing pass on modules with calls that do not return, and one
\* thread of their target
InitEIExit == CoverageIdle /\ \E mod \in ExitModules : IndexingAt(mod)

NextEIExit ==
    \/ VisitCall
    \/ VisitOther
    \/ NextBB
    \/ StartIndexed
    \/ ExecPush("t1")
    \/ ExecPop("t1")
    \/ ExecCall("t1")
    \/ ExecInvoke("t1")
    \/ ExecOther("t1")
    \/ ExecRet("t1")
    \/ ExecExit("t1")
    \/ ExecThrow("t1")

SpecEIExit == InitEIExit /\ [][NextEIExit]_vars

\* Both passes on one module, then its target. Thread t1 runs main: it
\* records the edge into the block of a function when it enters the
\* function and executes the instructions of the block after that; thread
\* t2 runs one block of code without calls.
FrameModule ==
    [f \in DefinedFuncs |->
        IF f = "main" THEN MakeBlock(<<"foo">>, 0)
        ELSE MakeBlock(<<"insn">>, 10)]

BlockOf(f) == IF f = "main" THEN "A" ELSE "B"

\* thread t has entered a function and not yet run the head of its block
AtBlockHead(t) ==
    /\ AtInsn(t)
    /\ Top(t).ip = 1
    /\ blk[t] # BlockOf(Top(t).fn)

\* thread t is between two instructions of the body of a block
InBody(t) ==
    /\ eiStarted
    /\ ctl[t] # <<>>
    /\ pc[t] \in {"idle", "term"}
    /\ ~AtBlockHead(t)

InitFrame == CoverageInit /\ IndexingAt(FrameModule)

NextFrame ==
    \/ SkipBlock
    \/ InstrumentBlock
    \/ PassDone /\ VisitCall
    \/ PassDone /\ VisitOther
    \/ PassDone /\ NextBB
    \/ /\ EIPassDone
       /\ StartTarget
       /\ live' = Threads
       /\ AFLMapPtr' = SHM
    \/ /\ started
       /\ StartIndexed
       /\ input' = <<1>>
    \/ AtBlockHead("t1") /\ EnterBlock("t1", BlockOf(Top("t1").fn))
    \/ /\ eiStarted
       /\ pc["t2"] = "idle"
       /\ \E b \in Blocks : EnterBlock("t2", b)
    \/ \E t \in Threads : LoadPrevLoc(t)
    \/ \E t \in Threads : LoadMapPtr(t)
    \/ \E t \in Threads : LoadCounter(t)
    \/ \E t \in Threads : StoreCounter(t)
    \/ \E t \in Threads : StorePrevLoc(t)
    \/ InBody("t1") /\ ExecPush("t1")
    \/ InBody("t1") /\ ExecPop("t1")
    \/ InBody("t1") /\ ExecCall("t1")
    \/ InBody("t1") /\ ExecOther("t1")
    \/ InBody("t1") /\ ExecRet("t1")

SpecFrame == InitFrame /\ [][NextFrame]_vars

\* the coverage pass from the reading of AFL_INST_RATIO on
InitRatio ==
    /\ inst_ratio = 100
    /\ inst_ratio_str \in EnvTexts
    /\ pass_pc = "getenv"
    /\ NothingVisited
    /\ IndexingAt(EmptyModule)

NextRatio ==
    \/ GetInstRatio
    \/ SampleSkip
    \/ SampleInstrument

SpecRatio == InitRatio /\ [][NextRatio]_vars

\* the coverage pass, then two single-threaded runs of its target
NextRerun ==
    \/ SkipBlock
    \/ InstrumentBlock
    \/ StartSingle
    \/ RunBlock
    \/ LoadPrevLoc("t1")
    \/ LoadMapPtr("t1")
    \/ LoadCounter("t1")
    \/ StoreCounter("t1")
    \/ StorePrevLoc("t1")
    \/ RerunTarget

SpecRerun == Init /\ [][NextRerun]_vars

(***************************************************************************)
(* Properties of the edge update.                                          *)
(***************************************************************************)
ZeroMap == [s \in Slots |-> 0]

\* C1: in a single-threaded run with the map attached, the counter store of
\* an edge update at a block labelled cur adds exactly 1 modulo 256 to the
\* slot (thread's __afl_prev_loc) XOR cur and leaves every other slot alone.
C1_EdgeIncrementMod256 ==
    [][\A t \in Threads :
          (live = {t} /\ AFLMapPtr = SHM
             /\ pc[t] = "store_ctr" /\ pc'[t] = "store_prev")
          => map' = [map EXCEPT ![Xor(AFLPrevLoc[t], cur_loc[blk[t]])] =
                                    (@ + 1) % ByteMod]]_vars

C1_Witness ==
    /\ live = {"t1"}
    /\ AFLMapPtr = SHM
    /\ pc["t1"] = "store_prev"
    /\ Counter["t1"] = ByteMod - 1
    /\ map[MapPtrIdx["t1"]] = 0

\* C2: with __afl_area_ptr null every edge update is a no-op that neither
\* faults nor reads or writes through the map pointer.
C2_NullMapIsNoOp ==
    (started /\ AFLMapPtr = NULL) => (~fault /\ ~wild)

\* C4: when an edge update at a block labelled cur has completed, the
\* executing thread's __afl_prev_loc is cur >> 1, whatever it held before.
C4_PrevLocIsCurShifted ==
    \A t \in Threads :
        (pc[t] = "term" /\ blk[t] \in DOMAIN cur_loc)
        => AFLPrevLoc[t] = Shr1(cur_loc[blk[t]])

C4_Witness ==
    \E t \in Threads :
        /\ pc[t] = "term"
        /\ Len(trace[t]) = 2
        /\ trace[t][1].blk # trace[t][2].blk
        /\ cur_loc[trace[t][1].blk] = 1
        /\ cur_loc[trace[t][2].blk] = MAP_SIZE - 1
        /\ AFLPrevLoc[t] = Shr1(MAP_SIZE - 1)

\* Consecutive recorded executions i, i+1 of one block on thread t.
SelfLoopAt(t, i) ==
    /\ i + 1 <= Len(trace[t])
    /\ trace[t][i].blk = trace[t][i + 1].blk

\* C5 as claimed: for every label in [0, MAP_SIZE), the second of two
\* consecutive executions of a block computes an edge id other than 0.
C5_SelfLoopEdgeNonZero ==
    \A t \in Threads : \A i \in 1 .. Len(trace[t]) :
        SelfLoopAt(t, i) => trace[t][i + 1].idx # 0

\* C5 as amended: for every label in [1, MAP_SIZE), the second of two
\* consecutive executions of a block computes an edge id other than 0
\* (for label 0 it computes 0).
C5_SelfLoopEdgeNonZeroAmended ==
    \A t \in Threads : \A i \in 1 .. Len(trace[t]) :
        SelfLoopAt(t, i) =>
            (trace[t][i + 1].idx = 0 <=> cur_loc[trace[t][i].blk] = 0)

C5_Witness ==
    \E t \in Threads :
        /\ SelfLoopAt(t, 1)
        /\ cur_loc[trace[t][1].blk] = MAP_SIZE - 1
        /\ trace[t][2].idx # 0

\* Thread t recorded a -> b -> a at positions i, i+1, i+2 (a, b two blocks).
ABAAt(t, i) ==
    /\ i + 2 <= Len(trace[t])
    /\ trace[t][i].blk = trace[t][i + 2].blk
    /\ trace[t][i].blk # trace[t][i + 1].blk

\* C6 as claimed: at ratio 100, in A -> B -> A with label(A) # 0 the slot of
\* edge A->B differs from the slot of edge B->A.
C6_ABASlotsDifferIfANonZero ==
    \A t \in Threads : \A i \in 1 .. Len(trace[t]) :
        (inst_ratio = 100 /\ ABAAt(t, i) /\ cur_loc[trace[t][i].blk] # 0)
        => trace[t][i + 1].idx # trace[t][i + 2].idx

\* C6 as amended: at ratio 100, in A -> B -> A the slot of edge A->B differs
\* from the slot of edge B->A exactly when label(A) # label(B).
C6_ABASlotsDifferIffLabelsDiffer ==
    \A t \in Threads : \A i \in 1 .. Len(trace[t]) :
        (inst_ratio = 100 /\ ABAAt(t, i))
        => (trace[t][i + 1].idx # trace[t][i + 2].idx
              <=> cur_loc[trace[t][i].blk] # cur_loc[trace[t][i + 1].blk])

C6_Witness ==
    \E t \in Threads :
        /\ inst_ratio = 100
        /\ ABAAt(t, 1)
        /\ cur_loc[trace[t][1].blk] = 0
        /\ cur_loc[trace[t][2].blk] # 0
        /\ trace[t][2].idx # trace[t][3].idx

\* C7: under every interleaving, the i-th edge id a thread computes is the
\* label of its own (i-1)-th recorded block shifted right by one (0 for its
\* first) XOR the label of its i-th block.
C7_EdgeIdFromOwnThread ==
    \A t \in Threads : \A i \in 1 .. Len(trace[t]) :
        trace[t][i].idx =
            Xor(IF i = 1 THEN 0 ELSE Shr1(cur_loc[trace[t][i - 1].blk]),
                cur_loc[trace[t][i].blk])

C7_Witness ==
    /\ Len(trace["t1"]) = 1
    /\ Len(trace["t2"]) = 2
    /\ pc["t1"] = "term"
    /\ AFLPrevLoc["t1"] # 0
    /\ trace["t2"][1].idx # trace["t2"][2].idx
    /\ AFLPrevLoc["t1"] # AFLPrevLoc["t2"]

\* C8: started on an all-zero map, every slot to which a counter store has
\* completed has held a non-zero value, whatever the interleaving.
C8_TouchedSlotSeenNonZero ==
    (started /\ AFLMapPtr = SHM /\ map0 = ZeroMap)
    => \A s \in Slots : stores[s] > 0 => s \in seenNonZero

\* two stores completed on a slot that counts one: an increment was lost
C8_Witness ==
    /\ map0 = ZeroMap
    /\ \E s \in Slots : stores[s] = 2 /\ map[s] = 1 /\ s \in seenNonZero

(***************************************************************************)
(* Properties of execution indexing.                                       *)
(***************************************************************************)
\* C3: while all wrapped calls return normally, each thread's context stack
\* is the sequence, outermost first, of the (call_site_id, callee_name)
\* frames of the wrapped calls active on it; so it is empty again, as at the
\* start, once the calls of the thread have returned.
C3_StackIsActiveCallPath ==
    eiStarted => \A t \in Threads : ei_stack[t] = ActiveFrames(t)

\* nested in foo from the second call of main, three distinct site ids
C3_Witness ==
    /\ eiStarted
    /\ Len(ctl["t1"]) = 2
    /\ ctl["t1"][1].ip > 4
    /\ Len(ei_stack["t1"]) = 2
    /\ ei_stack["t1"][1].name = "foo"
    /\ ei_stack["t1"][2].name = "fread"
    /\ Cardinality({siteOf[c].site : c \in DOMAIN siteOf}) = 3

ProgIdx(bb) == {p \in 1 .. Len(bb) : ~IsBracket(bb[p])}
\* the index in bb of the k-th instruction that is not a push or a pop
PosOf(bb, k) ==
    CHOOSE p \in ProgIdx(bb) : Cardinality({q \in ProgIdx(bb) : q <= p}) = k

\* The call orig[f][k] has become one call of the wrapper: same operands,
\* the original gone, its uses redirected, one push before, one pop after.
ReadRouted(f, k) ==
    LET bb == code[f]
        c == orig[f][k]
    IN  /\ Cardinality(ProgIdx(bb)) = Len(orig[f])
        /\ LET p == PosOf(bb, k)
               w == bb[p]
           IN  /\ w.op = "call"
               /\ w.callee = WrappedFReadName
               /\ w.target = WrappedFReadName
               /\ w.args = c.args
               /\ \A q \in 1 .. Len(bb) : bb[q].id # c.id
               /\ \A q \in 1 .. Len(bb) : \A a \in 1 .. Len(bb[q].args) :
                     bb[q].args[a] # Val(c.id)
               /\ \A j \in 1 .. Len(orig[f]) :
                     \A a \in 1 .. Len(orig[f][j].args) :
                        orig[f][j].args[a] = Val(c.id)
                        => bb[PosOf(bb, j)].args[a] = Val(w.id)
               /\ p > 1 /\ bb[p - 1].callee = EIPushCallFunc
               /\ p < Len(bb) /\ bb[p + 1].callee = EIPopReturnFunc
               /\ p > 2 => bb[p - 2].callee # EIPushCallFunc
               /\ p + 2 <= Len(bb) => bb[p + 2].callee # EIPopReturnFunc

\* C9 as claimed: every call that reaches fread has become exactly one call
\* of the wrapper with the same operands in the same order, its uses
\* redirected, the original removed, one push before and one pop after.
C9_EveryFReadRouted ==
    EIPassDone =>
        \A f \in DefinedFuncs : \A k \in 1 .. Len(orig[f]) :
            (orig[f][k].op = "call" /\ orig[f][k].target = "fread")
            => ReadRouted(f, k)

\* C9 as amended: every direct call of fread (getCalledFunction() is fread)
\* has become exactly one call of the wrapper with the same operands in the
\* same order, its uses redirected, the original removed, one push before
\* and one pop after; a call through a pointer is bracketed and left a call
\* of whatever the pointer holds.
C9_EveryDirectFReadRouted ==
    EIPassDone =>
        \A f \in DefinedFuncs : \A k \in 1 .. Len(orig[f]) :
            /\ (orig[f][k].op = "call" /\ orig[f][k].callee = "fread")
               => ReadRouted(f, k)
            /\ (orig[f][k].op = "call" /\ orig[f][k].callee = "")
               => /\ Cardinality(ProgIdx(code[f])) = Len(orig[f])
                  /\ code[f][PosOf(code[f], k)] = orig[f][k]

C9_Witness ==
    /\ EIPassDone
    /\ Len(orig["main"]) = 2
    /\ orig["main"][1].callee = "fread"
    /\ orig["main"][2].args = <<Val(1)>>
    /\ code["main"][2].callee = WrappedFReadName
    /\ code["main"][4].args = <<Val(code["main"][2].id)>>

\* C10 as claimed: a re-execution of the instrumented target on the same
\* input ends with the same sequence of (bytes consumed, context stack)
\* pairs as the first execution.
C10_RerunSameLog ==
    (run = 2 /\ Finished) => log = log1

\* C10 as amended: a re-execution of an instrumented target that creates no
\* second thread, on the same input, ends with the same sequence of (bytes
\* consumed, context stack) pairs as the first execution.
C10_RerunSameLogSingleThread ==
    (run = 2 /\ Finished /\ eiLive = {"t1"}) => log = log1

C10_Witness ==
    /\ run = 2
    /\ Finished
    /\ eiLive = {"t1"}
    /\ Len(log) = 2
    /\ log = log1
    /\ Len(log[1].stack) = 1
    /\ Len(log[2].stack) = 2
    /\ log[2].bytes # <<>>

(***************************************************************************)
(* Properties of the sampling decision.                                    *)
(***************************************************************************)
LastBlock == BlockOrder[bbIdx - 1]

\* C11: the ratio the block loop runs with is in [1, 100], it is 100 when
\* AFL_INST_RATIO is not set, and a block is instrumented exactly when the
\* value drawn for it from [0, 100) is below the ratio; so at ratio 100
\* every block is instrumented.
C11_InstrumentedIffDrawBelowRatio ==
    (pass_pc = "blocks" /\ bbIdx > 1) =>
        /\ inst_ratio \in 1 .. 100
        /\ draw \in 0 .. 99
        /\ LastBlock \in DOMAIN cur_loc <=> draw < inst_ratio
        /\ inst_ratio_str = Unset => inst_ratio = 100
        /\ inst_ratio = 100 =>
              \A i \in 1 .. (bbIdx - 1) : BlockOrder[i] \in DOMAIN cur_loc

\* the ratio not configured, every block instrumented, the last one on the
\* largest draw
C11_Witness ==
    /\ inst_ratio_str = Unset
    /\ PassDone
    /\ DOMAIN cur_loc = Blocks
    /\ inst_blocks = Len(BlockOrder)
    /\ draw = 99

\* The text is a decimal integer in [1, 100]: digits only, after optional
\* white space and an optional plus sign.
DenotesRatio(s) ==
    LET a == SkipSpace(s)
        b == IF a # <<>> /\ Head(a) = "+" THEN Tail(a) ELSE a
        v == Accumulate(b, [hi |-> 0, lo |-> 0, ovf |-> FALSE])
    IN  /\ s # Unset
        /\ b # <<>>
        /\ \A i \in 1 .. Len(b) : IsDigit(b[i])
        /\ ~v.ovf /\ v.hi = 0 /\ v.lo \in 1 .. 100

\* C12: once AFL_INST_RATIO has been read, a text that is 0, more than 100
\* or no integer in [1, 100] has ended the pass with FATAL, and a pass so
\* ended has instrumented no block.
C12_BadRatioIsFatal ==
    /\ (pass_pc # "getenv" /\ inst_ratio_str # Unset
           /\ ~DenotesRatio(inst_ratio_str))
       => pass_pc = "fatal"
    /\ pass_pc = "fatal" => (DOMAIN cur_loc = {} /\ inst_blocks = 0)

(***************************************************************************)
(* Two runs of one instrumented program.                                   *)
(***************************************************************************)
BetweenBlocks(t) == pc[t] \in {"idle", "term"}

\* C13: when the second single-threaded run of an instrumented program,
\* started like the first with __afl_prev_loc 0 and a zeroed map, has
\* taken the block sequence of the first run, the set of slots it has
\* stored to is the set the first run stored to.
C13_SameSlotsTouched ==
    (exec_no = 2 /\ BetweenBlocks("t1") /\ path = path1)
    => Touched = touched1

\* A -> B -> A with both blocks instrumented: three slots, twice
C13_Witness ==
    /\ exec_no = 2
    /\ BetweenBlocks("t1")
    /\ path = path1
    /\ path = <<"A", "B", "A">>
    /\ DOMAIN cur_loc = Blocks
    /\ Cardinality(Touched) = 3
    /\ Touched = touched1

(***************************************************************************)
(* The block the rewrite loop leaves behind.                               *)
(***************************************************************************)
IsPush(i) == i.op = "call" /\ i.callee = EIPushCallFunc
IsPop(i) == i.op = "call" /\ i.callee = EIPopReturnFunc
IsProgCall(i) == i.op = "call" /\ ~IsBracket(i)

\* every call is the middle of a push, call, pop triple and every push and
\* every pop is the end of one
InTriples(bb) ==
    \A q \in 1 .. Len(bb) :
        /\ IsProgCall(bb[q]) =>
              /\ q > 1 /\ IsPush(bb[q - 1])
              /\ q < Len(bb) /\ IsPop(bb[q + 1])
        /\ IsPush(bb[q]) => (q < Len(bb) /\ IsProgCall(bb[q + 1]))
        /\ IsPop(bb[q]) => (q > 1 /\ IsProgCall(bb[q - 1]))

\* the k-th instruction of the original block is the k-th instruction of
\* the rewritten block that is no push and no pop: itself, but for operands
\* that named a replaced fread call, or the wrapper call that replaced it
KeptInOrder(f) ==
    /\ Cardinality(ProgIdx(code[f])) = Len(orig[f])
    /\ \A k \in 1 .. Len(orig[f]) :
          LET o == orig[f][k]
              n == code[f][PosOf(code[f], k)]
          IN  IF IsFReadCall(o, FRead)
              THEN n.callee = WrappedFReadName /\ n.args = o.args
              ELSE /\ n.op = o.op /\ n.id = o.id /\ n.callee = o.callee
                   /\ Len(n.args) = Len(o.args)

CallsOf(bb) == {q \in 1 .. Len(bb) : bb[q].op = "call"}

Rewritten(f) ==
    /\ InTriples(code[f])
    /\ KeptInOrder(f)
    /\ Len(code[f]) = Len(orig[f]) + (2 * Cardinality(CallsOf(orig[f])))

\* C14: the rewrite loop comes to its end in every block, and it leaves
\* each block with every original call (for a direct fread call, the
\* wrapper call in its place) directly between one push and one pop, no
\* push or pop around an inserted call, and the other instructions in
\* their original order.
C14_LoopEndsWithCallsBracketed ==
    /\ <>EIPassDone
    /\ [](EIPassDone => \A f \in DefinedFuncs : Rewritten(f))

\* main: a direct fread call and a call through a pointer; foo: a read
\* and a plain instruction
C14_Witness ==
    /\ EIPassDone
    /\ Len(orig["main"]) = 2
    /\ orig["main"][1].callee = "fread"
    /\ orig["main"][2].callee = ""
    /\ Len(code["main"]) = 6
    /\ IsPush(code["main"][4])
    /\ code["main"][5] = orig["main"][2]
    /\ Len(code["foo"]) = 4
    /\ code["foo"][4].op = "insn"
    /\ \A f \in DefinedFuncs : Rewritten(f)

(***************************************************************************)
(* Calls that do not return.                                               *)
(***************************************************************************)
\* the process has ended inside a call of thread t
EndedInCall(t) == eiStarted /\ eiLive = {} /\ ctl[t] # <<>>

Gain(s) == (map[s] + ByteMod - map0[s]) % ByteMod

\* C16: with the map attached, a slot gains at most 1 per completed
\* counter store and at least 1 once a store has completed; it gains
\* exactly 1 per store when one thread runs, so a store is lost only to
\* another thread's update between a load and its store.
C16_StoresLostOnlyToAnotherThread ==
    (started /\ AFLMapPtr = SHM) =>
        \A s \in Slots :
            /\ Gain(s) <= stores[s]
            /\ stores[s] > 0 => Gain(s) > 0
            /\ Cardinality(live) = 1 => Gain(s) = stores[s]

\* two threads have each completed one edge update, both on slot s, and
\* the slot has gained 1
C16_Witness ==
    /\ AFLMapPtr = SHM
    /\ live = Threads
    /\ \A t \in Threads : Len(trace[t]) = 1 /\ pc[t] = "term"
    /\ \E s \in Slots :
          /\ \A t \in Threads : trace[t][1].idx = s
          /\ stores[s] = 2
          /\ Gain(s) = 1

(***************************************************************************)
(* Ranges.                                                                 *)
(***************************************************************************)
\* C17: in every reachable state every label, every thread's
\* __afl_prev_loc and every edge id computed (the offset held for the
\* counter access and those recorded before) are in [0, MAP_SIZE); so with
\* the map attached no counter access leaves the map.
C17_RegisterAndEdgeIdInMap ==
    /\ \A b \in DOMAIN cur_loc : cur_loc[b] \in Slots
    /\ \A t \in Threads :
          /\ AFLPrevLoc[t] \in Slots
          /\ PrevLoc[t] \in Slots
          /\ MapPtrIdx[t] \in DOMAIN map
          /\ \A i \in 1 .. Len(trace[t]) : trace[t][i].idx \in Slots
    /\ AFLMapPtr = SHM => ~wild

\* a thread about to store the counter of the last slot, from the largest
\* register value, while the other thread's register is 0
C17_Witness ==
    /\ AFLMapPtr = SHM
    /\ live = Threads
    /\ pc["t1"] = "store_ctr"
    /\ PrevLoc["t1"] = Shr1(MAP_SIZE - 1)
    /\ MapPtrIdx["t1"] = MAP_SIZE - 1
    /\ AFLPrevLoc["t2"] = 0
    /\ Len(trace["t1"]) = 2

(***************************************************************************)
(* What each kind of step leaves alone.                                    *)
(***************************************************************************)
\* thread t executes one instruction of an edge update
EdgeUpdateStep(t) ==
    /\ pc[t] \in {"load_prev", "load_ptr", "load_ctr", "store_ctr",
                   "store_prev"}
    /\ pc'[t] # pc[t]

\* thread t executes an inserted push or pop
BracketStep(t) ==
    /\ AtInsn(t)
    /\ IsBracket(CurInsn(t))
    /\ ctl'[t] # ctl[t]

\* control reaches a block the pass left without an edge update
DeclinedPointStep ==
    /\ execs' = execs + 1
    /\ \A t \in Threads : pc'[t] = "load_prev" => pc[t] = "load_prev"

\* C18: an instruction of an edge update of thread t changes no map slot
\* but the one at its edge id, no __afl_prev_loc but that of t and no
\* context stack; an inserted push or pop changes neither the map nor any
\* __afl_prev_loc; reaching a block that was not instrumented changes
\* none of the three.
C18_StepsKeepTheirFrame ==
    [][/\ \A t \in Threads :
             EdgeUpdateStep(t) =>
                /\ \A s \in Slots :
                      map'[s] # map[s] =>
                         /\ pc[t] = "store_ctr"
                         /\ s = Xor(AFLPrevLoc[t], cur_loc[blk[t]])
                /\ \A u \in Threads \ {t} : AFLPrevLoc'[u] = AFLPrevLoc[u]
                /\ ei_stack' = ei_stack
       /\ \A t \in Threads :
             BracketStep(t) =>
                /\ ei_stack'[t] # ei_stack[t]
                /\ map' = map
                /\ AFLPrevLoc' = AFLPrevLoc
       /\ DeclinedPointStep =>
             /\ map' = map
             /\ AFLPrevLoc' = AFLPrevLoc
             /\ ei_stack' = ei_stack]_vars

\* t1 is inside foo, under the frame of its call, and has recorded the edge
\* into foo's block after passing main's block, which is not instrumented;
\* t2 has recorded an edge of its own
C18_Witness ==
    /\ Len(ei_stack["t1"]) = 1
    /\ DOMAIN cur_loc = {"B"}
    /\ blk["t1"] = "B" /\ pc["t1"] = "term"
    /\ blk["t2"] = "B" /\ pc["t2"] = "term"
    /\ AFLPrevLoc["t1"] # 0
    /\ AFLPrevLoc["t2"] # 0
    /\ \E s \in Slots : map[s] # map0[s]

====
